---- MODULE Spec2Model ----
(***************************************************************************)
(* Payment-confirmation polling of the pharmgpt-mobile client.             *)
(*                                                                         *)
(* Two screens poll GET /api/payments/status/{sessionId} after a checkout  *)
(* redirect:                                                               *)
(*   Consultations.pollPaymentStatus        (src/unnamed/part_000:123-170) *)
(*   ConsultationSuccess.verifyPaymentStatus (src/app/index.tsx:1626-1673) *)
(* Each is an async function that re-invokes itself through setTimeout     *)
(* with attempts + 1.  One behaviour of the model mounts one screen and    *)
(* follows the single poll that its mount effect starts.                   *)
(***************************************************************************)
EXTENDS Integers, Sequences, FiniteSets, TLC

VARIABLES
    screen,              \* which screen component is mounted
    session_id,          \* session_id of the redirect / route ("" = absent)
    pc,                  \* position of the poll: start, query, timer, details, done
    attempts,            \* the attempts argument of the current call
    alerts,              \* Alert.alert calls so far, in order
    okButton,            \* Consultations: the 'OK' button of the success alert is pending
    showPaymentStatus,   \* Consultations state
    paymentSessionId,    \* Consultations state
    activeTab,           \* Consultations state
    historyLoads,        \* Consultations: loadConsultationHistory() calls made by the poll path
    loading,             \* ConsultationSuccess state
    paymentStatus,       \* ConsultationSuccess state
    consultationDetails, \* ConsultationSuccess state
    hist,                \* history: result of every completed status query, in order
    queries,             \* history: number of status queries issued (axios.get)
    waits,               \* history: number of poll timers scheduled (setTimeout)
    notified,            \* history: number of terminal notifications delivered
    detailsRequests,     \* history: number of consultation-details requests issued
    fired,               \* history: number of poll-timer callbacks that have run
    mounted,             \* the screen component is mounted (TRUE from construction on)
    unmountedAt,         \* history: queries issued when the screen was unmounted (-1: never)
    pendingBody,         \* the field values this backend sends for 'not paid' / 'not expired'
    ref                  \* EquivSpec: what the finished Consultations poll did (NoRef before)

VARIABLES
    \* AsyncStorage
    pharma_session_id,   \* value stored under 'pharma_session_id' ("" = absent)
    pharma_user_id,      \* value stored under 'pharma_user_id' ("" = absent)
    generated,           \* history: ids generated so far (Date.now() + Math.random())
    \* chat screen
    messages,            \* chat state
    inputText,           \* chat state
    chatLoading,         \* chat state `loading`
    sessionId,           \* chat state
    suggestions,         \* chat state
    chatAlerts,          \* number of 'Failed to get AI response' alerts shown
    chatRequests,        \* bodies of the POST /api/chat requests in flight
    initPc,              \* position of initializeSession: get, set, done
    storedSessionId,     \* local variable of initializeSession
    historyPc,           \* position of loadChatHistory: get, request, done, failed
    clock,               \* Date.now()
    appended,            \* history: ids of the messages sendMessage appended since the last clear
    \* get-or-create of the user id
    userPc,              \* position of each routine: idle, get, set, done
    userId,              \* local variable userId / storedUserId of each routine
    returned,            \* what each routine last returned (getUserId) or set (setUserId)
    \* GreenChemistry / Investigation lists
    currentSolvents,     \* GreenChemistry state
    rootCauses,          \* Investigation state
    listOp,              \* history: the last list operation and the list it was applied to
    \* Profile
    selectedRegulatory,  \* Profile state
    toggled,             \* history: the last value toggled and the selection before it
    \* booking form of Consultations
    selectedConsultant,  \* Consultations state ("null" = none)
    selectedPackage,     \* Consultations state
    bookingForm,         \* Consultations state: the required fields
    showBookingModal,    \* Consultations state
    bookingLoading,      \* Consultations state `loading`
    bookingRequest,      \* body of the POST /api/consultations/book in flight (NoBooking = none)
    bookingAlert,        \* text of the last alert of handleBookConsultation ("" = none)
    bookingOutcome       \* history: the path the last run of handleBookConsultation took

\* the two payment pollers
pollVars == <<screen, session_id, pc, attempts, alerts, okButton, showPaymentStatus,
              paymentSessionId, activeTab, historyLoads, loading, paymentStatus,
              consultationDetails, hist, queries, waits, notified, detailsRequests,
              fired, mounted, unmountedAt, pendingBody, ref>>

chatVars == <<messages, inputText, chatLoading, sessionId, suggestions, chatAlerts, chatRequests, initPc, storedSessionId, historyPc, clock,
              appended>>
uidVars == <<userPc, userId, returned>>
listVars == <<currentSolvents, rootCauses, listOp>>
toggleVars == <<selectedRegulatory, toggled>>
bookVars == <<selectedConsultant, selectedPackage, bookingForm, showBookingModal,
              bookingLoading, bookingRequest, bookingAlert, bookingOutcome>>
storageVars == <<pharma_session_id, pharma_user_id, generated>>

\* everything outside the payment pollers
appVars == <<storageVars, chatVars, uidVars, listVars, toggleVars, bookVars>>

vars == <<pollVars, appVars>>

\* what no step of a poll changes
envVars == <<mounted, unmountedAt, pendingBody, ref>>

\* state of the other screen, untouched by a poll of Consultations
csVars == <<loading, paymentStatus, consultationDetails, detailsRequests>>
\* state of the other screen, untouched by a poll of ConsultationSuccess
coVars == <<okButton, showPaymentStatus, paymentSessionId, activeTab, historyLoads>>

-----------------------------------------------------------------------------
(* Program constants *)

maxAttempts == 10
pollInterval == 2000
\* the literal 3 of the catch branch: `if (attempts < 3)`
retryLimit == 3

Screens == {"Consultations", "ConsultationSuccess"}

\* The session identifiers a redirect can carry; "" is a redirect without one.
SessionIds == {"", "cs_test_1"}

\* The body of a 2xx status response.  payment_status and status are two
\* independent fields; consultation_request_id is optional ("" = absent).
StatusResponses ==
    [payment_status : {"paid", pendingBody.payment_status},
     status : {"expired", pendingBody.status},
     consultation_request_id : {"", "req_1"}]

\* Values of the two fields other than the literals the code tests: the
\* provider's usual ones, a value the client does not know, and "" for a
\* field missing from the body (undefined in the code).
PendingBodies ==
    [payment_status : {"unpaid", "no_payment_required", ""},
     status : {"open", "complete", ""}]

\* What a completed status query is recorded as in hist.
Ok(data) == [ok |-> TRUE, payment_status |-> data.payment_status, status |-> data.status]
TransportFailure == [ok |-> FALSE, payment_status |-> "", status |-> ""]

\* Alert texts
AlertTimedOut == "Payment status check timed out. Please check your consultation history."
AlertPaid == "Payment Successful!"
AlertExpired == "Payment Expired"
AlertUnable == "Unable to verify payment status. Please check your consultation history."
AlertVerifyTimeout == "Payment verification timeout. Please check your consultation history."
AlertNoSession == "No payment session found"

Shown(a) == \E i \in 1..Len(alerts) : alerts[i] = a

\* No poll has been recorded for comparison.
NoRef == [hist |-> <<>>, queries |-> 0, waits |-> 0, outcome |-> "none"]

-----------------------------------------------------------------------------
(* The other screens: inputs and state at construction *)

\* `prefix_${Date.now()}_${Math.random()...}`: the n-th id generated
FreshId(prefix, n) == prefix \o "_" \o ToString(n)

\* what the user can type: nothing, blanks, a question
Texts == {"", " ", "q"}
\* the messageText argument of sendMessage: absent, or a proofreading prompt
MessageTexts == {"", "prompt"}
\* response.data of POST /api/chat
ChatResponses == {[response |-> "r", suggestions |-> <<>>],
                  [response |-> "r", suggestions |-> <<"q">>]}
\* response.data of GET /api/chat-history/{sessionId}: what the backend has stored
HistoryResponses ==
    {<<>>,
     <<[id |-> -2, sender |-> "user", message |-> "q"],
       [id |-> -1, sender |-> "assistant", message |-> "r"]>>}
\* cap of Date.now() and of the ids generated in one behaviour
MaxClock == 4
MaxIds == 3

Routines == {"GreenChemistry", "Investigation", "Profile"}

\* what a list entry can hold, and the longest list explored
Entries == {"", "Methanol"}
MaxLen == 3
NoOp == [list |-> "none", op |-> "none", index |-> 0, before |-> <<>>]

RegulatoryValues == {"GMP", "ISO", "USFDA", "KFDA", "EDQM", "PMDA", "ICH"}
NoToggle == [value |-> "", before |-> <<>>]

Consultants == {"null", "c1"}
Packages == {"", "p1"}
FieldTexts == {"", "x"}
RequiredFields == {"title", "description", "contact_email", "preferred_date", "preferred_time"}
BookingResponses == {[checkout_url |-> "https://checkout"], [checkout_url |-> ""]}
NoBooking == [consultant_id |-> "null", package_id |-> "", form |-> [f \in RequiredFields |-> ""]]
AlertSelect == "Please select a consultant and package."
AlertFields == "Please fill in all required fields."
AlertNoCheckout == "Failed to create payment session."
AlertBookingFailed == "Failed to book consultation. Please try again."

\* the chat screen after its mount effect has called initializeSession()
\* and loadChatHistory(); `stored` is what an earlier run left in AsyncStorage
ChatStart(stored) ==
    /\ pharma_session_id = stored
    /\ messages = <<>>
    /\ inputText = ""
    /\ chatLoading = FALSE
    /\ sessionId = ""
    /\ suggestions = <<>>
    /\ chatAlerts = 0
    /\ chatRequests = <<>>
    /\ initPc = "get"
    /\ storedSessionId = ""
    /\ historyPc = "get"
    /\ clock = 0
    /\ appended = {}

UidIdle ==
    /\ pharma_user_id = ""
    /\ userPc = [r \in Routines |-> "idle"]
    /\ userId = [r \in Routines |-> ""]
    /\ returned = [r \in Routines |-> ""]

ListIdle ==
    /\ currentSolvents = <<"">>
    /\ rootCauses = <<"">>
    /\ listOp = NoOp

ToggleIdle ==
    /\ selectedRegulatory = <<"GMP">>
    /\ toggled = NoToggle

BookIdle ==
    /\ selectedConsultant = "null"
    /\ selectedPackage = ""
    /\ bookingForm = [f \in RequiredFields |-> ""]
    /\ showBookingModal = FALSE
    /\ bookingLoading = FALSE
    /\ bookingRequest = NoBooking
    /\ bookingAlert = ""
    /\ bookingOutcome = "none"

\* every other screen as constructed, nothing stored
AppIdle ==
    /\ generated = 0
    /\ ChatStart("")
    /\ UidIdle
    /\ ListIdle
    /\ ToggleIdle
    /\ BookIdle

-----------------------------------------------------------------------------
PollInit ==
    /\ screen \in Screens
    /\ session_id \in SessionIds
    /\ pc = "start"
    /\ attempts = 0
    /\ alerts = <<>>
    /\ okButton = FALSE
    /\ showPaymentStatus = FALSE
    /\ paymentSessionId = ""
    /\ activeTab = "browse"
    /\ historyLoads = 0
    /\ loading = TRUE
    /\ paymentStatus = ""
    /\ consultationDetails = "null"
    /\ hist = <<>>
    /\ queries = 0
    /\ waits = 0
    /\ notified = 0
    /\ detailsRequests = 0
    /\ fired = 0
    /\ mounted = TRUE
    /\ unmountedAt = -1
    /\ pendingBody \in PendingBodies
    /\ ref = NoRef

Init == PollInit /\ AppIdle

-----------------------------------------------------------------------------
(* Consultations *)

\* Variant: the budget test written `attempts > maxAttempts`.
pollPaymentStatus_offByOne(a, show) ==
    /\ attempts' = a
    /\ IF a > maxAttempts
       THEN /\ alerts' = Append(alerts, AlertTimedOut)
            /\ showPaymentStatus' = FALSE
            /\ notified' = notified + 1
            /\ pc' = "done"
            /\ UNCHANGED queries
       ELSE /\ queries' = queries + 1
            /\ pc' = "query"
            /\ showPaymentStatus' = show
            /\ UNCHANGED <<alerts, notified>>

\* The synchronous part of a call pollPaymentStatus(sessionId, a), up to the
\* await of the status query.  show is showPaymentStatus as the caller left it.
pollPaymentStatus(a, show) ==
    /\ attempts' = a
    /\ IF a >= maxAttempts
       THEN /\ alerts' = Append(alerts, AlertTimedOut)
            /\ showPaymentStatus' = FALSE
            /\ notified' = notified + 1
            /\ pc' = "done"
            /\ UNCHANGED queries
       ELSE /\ queries' = queries + 1
            /\ pc' = "query"
            /\ showPaymentStatus' = show
            /\ UNCHANGED <<alerts, notified>>

\* The mount effect: checkPaymentReturn() reads session_id from the URL.
checkPaymentReturn ==
    /\ screen = "Consultations"
    /\ pc = "start"
    /\ historyLoads' = historyLoads + 1
    /\ IF session_id # ""
       THEN /\ paymentSessionId' = session_id
            /\ pollPaymentStatus(0, TRUE)
       ELSE /\ pc' = "done"
            /\ UNCHANGED <<paymentSessionId, showPaymentStatus, attempts, alerts,
                           notified, queries>>
    /\ UNCHANGED <<screen, session_id, okButton, activeTab, hist, waits>>
    /\ UNCHANGED csVars
    /\ UNCHANGED <<fired, envVars, appVars>>

\* Variant: the expired branch without its `return`, so that control reaches
\* the setTimeout below it.
pollResponse_expiredFallsThrough(data) ==
    /\ screen = "Consultations"
    /\ pc = "query"
    /\ hist' = Append(hist, Ok(data))
    /\ IF data.payment_status = "paid"
       THEN /\ alerts' = Append(alerts, AlertPaid)
            /\ okButton' = TRUE
            /\ notified' = notified + 1
            /\ pc' = "done"
            /\ UNCHANGED <<showPaymentStatus, waits>>
       ELSE IF data.status = "expired"
       THEN /\ alerts' = Append(alerts, AlertExpired)
            /\ showPaymentStatus' = FALSE
            /\ notified' = notified + 1
            /\ waits' = waits + 1
            /\ pc' = "timer"
            /\ UNCHANGED okButton
       ELSE /\ waits' = waits + 1
            /\ pc' = "timer"
            /\ UNCHANGED <<alerts, okButton, showPaymentStatus, notified>>
    /\ UNCHANGED <<screen, session_id, attempts, paymentSessionId, activeTab,
                   historyLoads, queries>>
    /\ UNCHANGED csVars
    /\ UNCHANGED <<fired, envVars, appVars>>

\* Variant: expiry tested on the other field, `data.payment_status === 'expired'`.
pollResponse_expiredField(data) ==
    /\ screen = "Consultations"
    /\ pc = "query"
    /\ hist' = Append(hist, Ok(data))
    /\ IF data.payment_status = "paid"
       THEN /\ alerts' = Append(alerts, AlertPaid)
            /\ okButton' = TRUE
            /\ notified' = notified + 1
            /\ pc' = "done"
            /\ UNCHANGED <<showPaymentStatus, waits>>
       ELSE IF data.payment_status = "expired"
       THEN /\ alerts' = Append(alerts, AlertExpired)
            /\ showPaymentStatus' = FALSE
            /\ notified' = notified + 1
            /\ pc' = "done"
            /\ UNCHANGED <<okButton, waits>>
       ELSE /\ waits' = waits + 1
            /\ pc' = "timer"
            /\ UNCHANGED <<alerts, okButton, showPaymentStatus, notified>>
    /\ UNCHANGED <<screen, session_id, attempts, paymentSessionId, activeTab,
                   historyLoads, queries>>
    /\ UNCHANGED csVars
    /\ UNCHANGED <<fired, envVars, appVars>>

\* Variant: `setTimeout(pollPaymentStatus(sessionId, attempts + 1), pollInterval)`,
\* which runs the next call at once and still arms the timer.
pollResponse_callsImmediately(data) ==
    /\ screen = "Consultations"
    /\ pc = "query"
    /\ hist' = Append(hist, Ok(data))
    /\ IF data.payment_status = "paid"
       THEN /\ alerts' = Append(alerts, AlertPaid)
            /\ okButton' = TRUE
            /\ notified' = notified + 1
            /\ pc' = "done"
            /\ UNCHANGED <<showPaymentStatus, waits, attempts, queries>>
       ELSE IF data.status = "expired"
       THEN /\ alerts' = Append(alerts, AlertExpired)
            /\ showPaymentStatus' = FALSE
            /\ notified' = notified + 1
            /\ pc' = "done"
            /\ UNCHANGED <<okButton, waits, attempts, queries>>
       ELSE /\ waits' = waits + 1
            /\ pollPaymentStatus(attempts + 1, showPaymentStatus)
            /\ UNCHANGED okButton
    /\ UNCHANGED <<screen, session_id, paymentSessionId, activeTab, historyLoads>>
    /\ UNCHANGED csVars
    /\ UNCHANGED <<fired, envVars, appVars>>

\* Variant: the expired branch without setShowPaymentStatus(false).
pollResponse_expiredKeepsModal(data) ==
    /\ screen = "Consultations"
    /\ pc = "query"
    /\ hist' = Append(hist, Ok(data))
    /\ IF data.payment_status = "paid"
       THEN /\ alerts' = Append(alerts, AlertPaid)
            /\ okButton' = TRUE
            /\ notified' = notified + 1
            /\ pc' = "done"
            /\ UNCHANGED <<showPaymentStatus, waits>>
       ELSE IF data.status = "expired"
       THEN /\ alerts' = Append(alerts, AlertExpired)
            /\ notified' = notified + 1
            /\ pc' = "done"
            /\ UNCHANGED <<okButton, waits, showPaymentStatus>>
       ELSE /\ waits' = waits + 1
            /\ pc' = "timer"
            /\ UNCHANGED <<alerts, okButton, showPaymentStatus, notified>>
    /\ UNCHANGED <<screen, session_id, attempts, paymentSessionId, activeTab,
                   historyLoads, queries>>
    /\ UNCHANGED csVars
    /\ UNCHANGED <<fired, envVars, appVars>>

\* Variant: the two tests in the other order, expiry first.
pollResponse_expiredFirst(data) ==
    /\ screen = "Consultations"
    /\ pc = "query"
    /\ hist' = Append(hist, Ok(data))
    /\ IF data.status = "expired"
       THEN /\ alerts' = Append(alerts, AlertExpired)
            /\ showPaymentStatus' = FALSE
            /\ notified' = notified + 1
            /\ pc' = "done"
            /\ UNCHANGED <<okButton, waits>>
       ELSE IF data.payment_status = "paid"
       THEN /\ alerts' = Append(alerts, AlertPaid)
            /\ okButton' = TRUE
            /\ notified' = notified + 1
            /\ pc' = "done"
            /\ UNCHANGED <<showPaymentStatus, waits>>
       ELSE /\ waits' = waits + 1
            /\ pc' = "timer"
            /\ UNCHANGED <<alerts, okButton, showPaymentStatus, notified>>
    /\ UNCHANGED <<screen, session_id, attempts, paymentSessionId, activeTab,
                   historyLoads, queries>>
    /\ UNCHANGED csVars
    /\ UNCHANGED <<fired, envVars, appVars>>

\* The status query resolves with a 2xx response: the rest of the try block.
pollResponse(data) ==
    /\ screen = "Consultations"
    /\ pc = "query"
    /\ hist' = Append(hist, Ok(data))
    /\ IF data.payment_status = "paid"
       THEN /\ alerts' = Append(alerts, AlertPaid)
            /\ okButton' = TRUE
            /\ notified' = notified + 1
            /\ pc' = "done"
            /\ UNCHANGED <<showPaymentStatus, waits>>
       ELSE IF data.status = "expired"
       THEN /\ alerts' = Append(alerts, AlertExpired)
            /\ showPaymentStatus' = FALSE
            /\ notified' = notified + 1
            /\ pc' = "done"
            /\ UNCHANGED <<okButton, waits>>
       ELSE /\ waits' = waits + 1
            /\ pc' = "timer"
            /\ UNCHANGED <<alerts, okButton, showPaymentStatus, notified>>
    /\ UNCHANGED <<screen, session_id, attempts, paymentSessionId, activeTab,
                   historyLoads, queries>>
    /\ UNCHANGED csVars
    /\ UNCHANGED <<fired, envVars, appVars>>

\* The status query rejects (network error, non-2xx): the catch block.
pollError ==
    /\ screen = "Consultations"
    /\ pc = "query"
    /\ hist' = Append(hist, TransportFailure)
    /\ IF attempts < retryLimit
       THEN /\ waits' = waits + 1
            /\ pc' = "timer"
            /\ UNCHANGED <<alerts, showPaymentStatus, notified>>
       ELSE /\ alerts' = Append(alerts, AlertUnable)
            /\ showPaymentStatus' = FALSE
            /\ notified' = notified + 1
            /\ pc' = "done"
            /\ UNCHANGED waits
    /\ UNCHANGED <<screen, session_id, attempts, okButton, paymentSessionId,
                   activeTab, historyLoads, queries>>
    /\ UNCHANGED csVars
    /\ UNCHANGED <<fired, envVars, appVars>>

\* Variant: the callback passes attempts + 2.
pollTimer_skips ==
    /\ screen = "Consultations"
    /\ pc = "timer"
    /\ pollPaymentStatus(attempts + 2, showPaymentStatus)
    /\ UNCHANGED <<screen, session_id, okButton, paymentSessionId, activeTab,
                   historyLoads, hist, waits>>
    /\ UNCHANGED csVars
    /\ fired' = fired + 1
    /\ UNCHANGED <<envVars, appVars>>

\* The poll timer fires: () => pollPaymentStatus(sessionId, attempts + 1).
pollTimer ==
    /\ screen = "Consultations"
    /\ pc = "timer"
    /\ pollPaymentStatus(attempts + 1, showPaymentStatus)
    /\ UNCHANGED <<screen, session_id, okButton, paymentSessionId, activeTab,
                   historyLoads, hist, waits>>
    /\ UNCHANGED csVars
    /\ fired' = fired + 1
    /\ UNCHANGED <<envVars, appVars>>

\* The user presses 'OK' on the success alert.
pressOK ==
    /\ screen = "Consultations"
    /\ okButton
    /\ okButton' = FALSE
    /\ showPaymentStatus' = FALSE
    /\ activeTab' = "history"
    /\ historyLoads' = historyLoads + 1
    /\ UNCHANGED <<screen, session_id, pc, attempts, alerts, paymentSessionId,
                   hist, queries, waits, notified>>
    /\ UNCHANGED csVars
    /\ UNCHANGED <<fired, envVars, appVars>>

-----------------------------------------------------------------------------
(* ConsultationSuccess *)

\* Variant: the budget test written `attempts > maxAttempts`.
verifyPaymentStatus_offByOne(a) ==
    /\ attempts' = a
    /\ IF a > maxAttempts
       THEN /\ loading' = FALSE
            /\ alerts' = Append(alerts, AlertVerifyTimeout)
            /\ notified' = notified + 1
            /\ pc' = "done"
            /\ UNCHANGED queries
       ELSE /\ queries' = queries + 1
            /\ pc' = "query"
            /\ UNCHANGED <<loading, alerts, notified>>

\* Variant: the budget test written `attempts >= maxAttempts - 1`.
verifyPaymentStatus_lowBudget(a) ==
    /\ attempts' = a
    /\ IF a >= maxAttempts - 1
       THEN /\ loading' = FALSE
            /\ alerts' = Append(alerts, AlertVerifyTimeout)
            /\ notified' = notified + 1
            /\ pc' = "done"
            /\ UNCHANGED queries
       ELSE /\ queries' = queries + 1
            /\ pc' = "query"
            /\ UNCHANGED <<loading, alerts, notified>>

\* The synchronous part of a call verifyPaymentStatus(sessionId, a).
verifyPaymentStatus(a) ==
    /\ attempts' = a
    /\ IF a >= maxAttempts
       THEN /\ loading' = FALSE
            /\ alerts' = Append(alerts, AlertVerifyTimeout)
            /\ notified' = notified + 1
            /\ pc' = "done"
            /\ UNCHANGED queries
       ELSE /\ queries' = queries + 1
            /\ pc' = "query"
            /\ UNCHANGED <<loading, alerts, notified>>

\* Variant: the effect without its `if (session_id)` test.
verifyEffect_noGuard ==
    /\ screen = "ConsultationSuccess"
    /\ pc = "start"
    /\ verifyPaymentStatus(0)
    /\ UNCHANGED <<screen, session_id, paymentStatus, consultationDetails, hist, waits,
                   detailsRequests>>
    /\ UNCHANGED coVars
    /\ UNCHANGED <<fired, envVars, appVars>>

\* The mount effect on [session_id].
verifyEffect ==
    /\ screen = "ConsultationSuccess"
    /\ pc = "start"
    /\ IF session_id # ""
       THEN verifyPaymentStatus(0)
       ELSE /\ loading' = FALSE
            /\ alerts' = Append(alerts, AlertNoSession)
            /\ pc' = "done"
            /\ UNCHANGED <<attempts, queries, notified>>
    /\ UNCHANGED <<screen, session_id, paymentStatus, consultationDetails, hist, waits,
                   detailsRequests>>
    /\ UNCHANGED coVars
    /\ UNCHANGED <<fired, envVars, appVars>>

\* Variant: payment tested on the other field, `data.status === 'paid'`.
verifyResponse_statusField(data) ==
    /\ screen = "ConsultationSuccess"
    /\ pc = "query"
    /\ hist' = Append(hist, Ok(data))
    /\ IF data.status = "paid"
       THEN /\ paymentStatus' = "success"
            /\ loading' = FALSE
            /\ notified' = notified + 1
            /\ IF data.consultation_request_id # ""
               THEN /\ detailsRequests' = detailsRequests + 1
                    /\ pc' = "details"
               ELSE /\ pc' = "done"
                    /\ UNCHANGED detailsRequests
            /\ UNCHANGED waits
       ELSE IF data.status = "expired"
       THEN /\ paymentStatus' = "expired"
            /\ loading' = FALSE
            /\ notified' = notified + 1
            /\ pc' = "done"
            /\ UNCHANGED <<waits, detailsRequests>>
       ELSE /\ waits' = waits + 1
            /\ pc' = "timer"
            /\ UNCHANGED <<paymentStatus, loading, notified, detailsRequests>>
    /\ UNCHANGED <<screen, session_id, attempts, alerts, consultationDetails, queries>>
    /\ UNCHANGED coVars
    /\ UNCHANGED <<fired, envVars, appVars>>

\* Variant: the paid branch without its `return` (and without the details
\* request), so that control reaches the setTimeout below it.
verifyResponse_paidFallsThrough(data) ==
    /\ screen = "ConsultationSuccess"
    /\ pc = "query"
    /\ hist' = Append(hist, Ok(data))
    /\ IF data.payment_status = "paid"
       THEN /\ paymentStatus' = "success"
            /\ loading' = FALSE
            /\ notified' = notified + 1
            /\ waits' = waits + 1
            /\ pc' = "timer"
       ELSE IF data.status = "expired"
       THEN /\ paymentStatus' = "expired"
            /\ loading' = FALSE
            /\ notified' = notified + 1
            /\ pc' = "done"
            /\ UNCHANGED waits
       ELSE /\ waits' = waits + 1
            /\ pc' = "timer"
            /\ UNCHANGED <<paymentStatus, loading, notified>>
    /\ UNCHANGED <<screen, session_id, attempts, alerts, consultationDetails, queries,
                   detailsRequests>>
    /\ UNCHANGED coVars
    /\ UNCHANGED <<fired, envVars, appVars>>

\* The status query resolves with a 2xx response: the rest of the try block.
verifyResponse(data) ==
    /\ screen = "ConsultationSuccess"
    /\ pc = "query"
    /\ hist' = Append(hist, Ok(data))
    /\ IF data.payment_status = "paid"
       THEN /\ paymentStatus' = "success"
            /\ loading' = FALSE
            /\ notified' = notified + 1
            /\ IF data.consultation_request_id # ""
               THEN /\ detailsRequests' = detailsRequests + 1
                    /\ pc' = "details"
               ELSE /\ pc' = "done"
                    /\ UNCHANGED detailsRequests
            /\ UNCHANGED waits
       ELSE IF data.status = "expired"
       THEN /\ paymentStatus' = "expired"
            /\ loading' = FALSE
            /\ notified' = notified + 1
            /\ pc' = "done"
            /\ UNCHANGED <<waits, detailsRequests>>
       ELSE /\ waits' = waits + 1
            /\ pc' = "timer"
            /\ UNCHANGED <<paymentStatus, loading, notified, detailsRequests>>
    /\ UNCHANGED <<screen, session_id, attempts, alerts, consultationDetails, queries>>
    /\ UNCHANGED coVars
    /\ UNCHANGED <<fired, envVars, appVars>>

\* Variant: a catch block that only logs once the retries are used up.
verifyError_logOnly ==
    /\ screen = "ConsultationSuccess"
    /\ pc = "query"
    /\ hist' = Append(hist, TransportFailure)
    /\ IF attempts < retryLimit
       THEN /\ waits' = waits + 1
            /\ pc' = "timer"
       ELSE /\ pc' = "done"
            /\ UNCHANGED waits
    /\ UNCHANGED <<loading, paymentStatus, notified>>
    /\ UNCHANGED <<screen, session_id, attempts, alerts, consultationDetails, queries,
                   detailsRequests>>
    /\ UNCHANGED coVars
    /\ UNCHANGED <<fired, envVars, appVars>>

\* Variant: the retry test written `attempts < 2`.
verifyError_earlyGiveUp ==
    /\ screen = "ConsultationSuccess"
    /\ pc = "query"
    /\ hist' = Append(hist, TransportFailure)
    /\ IF attempts < 2
       THEN /\ waits' = waits + 1
            /\ pc' = "timer"
            /\ UNCHANGED <<loading, paymentStatus, notified>>
       ELSE /\ loading' = FALSE
            /\ paymentStatus' = "error"
            /\ notified' = notified + 1
            /\ pc' = "done"
            /\ UNCHANGED waits
    /\ UNCHANGED <<screen, session_id, attempts, alerts, consultationDetails, queries,
                   detailsRequests>>
    /\ UNCHANGED coVars
    /\ UNCHANGED <<fired, envVars, appVars>>

\* The status query rejects: the catch block.
verifyError ==
    /\ screen = "ConsultationSuccess"
    /\ pc = "query"
    /\ hist' = Append(hist, TransportFailure)
    /\ IF attempts < retryLimit
       THEN /\ waits' = waits + 1
            /\ pc' = "timer"
            /\ UNCHANGED <<loading, paymentStatus, notified>>
       ELSE /\ loading' = FALSE
            /\ paymentStatus' = "error"
            /\ notified' = notified + 1
            /\ pc' = "done"
            /\ UNCHANGED waits
    /\ UNCHANGED <<screen, session_id, attempts, alerts, consultationDetails, queries,
                   detailsRequests>>
    /\ UNCHANGED coVars
    /\ UNCHANGED <<fired, envVars, appVars>>

\* The poll timer fires: () => verifyPaymentStatus(sessionId, attempts + 1).
verifyTimer ==
    /\ screen = "ConsultationSuccess"
    /\ pc = "timer"
    /\ verifyPaymentStatus(attempts + 1)
    /\ UNCHANGED <<screen, session_id, paymentStatus, consultationDetails, hist, waits,
                   detailsRequests>>
    /\ UNCHANGED coVars
    /\ fired' = fired + 1
    /\ UNCHANGED <<envVars, appVars>>

\* GET /api/consultations/{consultation_request_id} resolves.
detailsResponse ==
    /\ screen = "ConsultationSuccess"
    /\ pc = "details"
    /\ consultationDetails' = "details"
    /\ pc' = "done"
    /\ UNCHANGED <<screen, session_id, attempts, alerts, loading, paymentStatus,
                   hist, queries, waits, notified, detailsRequests>>
    /\ UNCHANGED coVars
    /\ UNCHANGED <<fired, envVars, appVars>>

\* Variant: a catch block that also reports the payment as failed.
detailsError_reportsFailure ==
    /\ screen = "ConsultationSuccess"
    /\ pc = "details"
    /\ pc' = "done"
    /\ paymentStatus' = "error"
    /\ UNCHANGED <<screen, session_id, attempts, alerts, loading,
                   consultationDetails, hist, queries, waits, notified, detailsRequests>>
    /\ UNCHANGED coVars
    /\ UNCHANGED <<fired, envVars, appVars>>

\* GET /api/consultations/{consultation_request_id} rejects: logged only.
detailsError ==
    /\ screen = "ConsultationSuccess"
    /\ pc = "details"
    /\ pc' = "done"
    /\ UNCHANGED <<screen, session_id, attempts, alerts, loading, paymentStatus,
                   consultationDetails, hist, queries, waits, notified, detailsRequests>>
    /\ UNCHANGED coVars
    /\ UNCHANGED <<fired, envVars, appVars>>

-----------------------------------------------------------------------------
(* Leaving the screen *)

\* The user navigates away and React unmounts the component.  Neither mount
\* effect returns a cleanup function and no timer id is kept, so the pending
\* request or timer of the poll stays as it is.
unmount ==
    /\ mounted
    /\ pc # "start"
    /\ mounted' = FALSE
    /\ unmountedAt' = queries
    /\ UNCHANGED <<screen, session_id, pc, attempts, alerts, hist, queries, waits,
                   notified, fired, pendingBody, ref>>
    /\ UNCHANGED <<csVars, coVars, appVars>>

-----------------------------------------------------------------------------
\* The steps of the poll and of what it starts.
PollStep ==
    \/ checkPaymentReturn
    \/ \E data \in StatusResponses : pollResponse(data)
    \/ pollError
    \/ pollTimer
    \/ pressOK
    \/ verifyEffect
    \/ \E data \in StatusResponses : verifyResponse(data)
    \/ verifyError
    \/ verifyTimer
    \/ detailsResponse
    \/ detailsError

Next == PollStep \/ unmount

Spec == Init /\ [][Next]_vars

\* Every issued request eventually resolves or rejects, and every scheduled
\* timer eventually fires (the JavaScript event loop runs due callbacks).
Completes ==
    \/ \E data \in StatusResponses : pollResponse(data)
    \/ pollError
    \/ \E data \in StatusResponses : verifyResponse(data)
    \/ verifyError
    \/ detailsResponse
    \/ detailsError

Fires == pollTimer \/ verifyTimer

FairSpec == Spec /\ WF_vars(Completes) /\ WF_vars(Fires)

-----------------------------------------------------------------------------
(* The outcome of the poll, read off the screen's state *)

Started == pc # "start" /\ session_id # ""

Polling == pc \in {"query", "timer"}

Paid ==
    IF screen = "Consultations" THEN Shown(AlertPaid) ELSE paymentStatus = "success"

Expired ==
    IF screen = "Consultations" THEN Shown(AlertExpired) ELSE paymentStatus = "expired"

TimedOut ==
    IF screen = "Consultations" THEN Shown(AlertTimedOut) ELSE Shown(AlertVerifyTimeout)

Failed ==
    IF screen = "Consultations" THEN Shown(AlertUnable) ELSE paymentStatus = "error"

Terminal == Paid \/ Expired \/ TimedOut \/ Failed

-----------------------------------------------------------------------------
(* Reading the history of status queries *)

Last(h) == h[Len(h)]

\* total time spent in poll-interval waits, in ms
Elapsed == waits * pollInterval

PaidResult(r) == r.ok /\ r.payment_status = "paid"
ExpiredResult(r) == r.ok /\ r.payment_status # "paid" /\ r.status = "expired"
PendingResult(r) == r.ok /\ r.payment_status # "paid" /\ r.status # "expired"
FailureResult(r) == ~r.ok

AllPending(h) == \A i \in 1..Len(h) : PendingResult(h[i])

\* how many of the four outcomes the screen shows
OutcomeCount ==
    (IF Paid THEN 1 ELSE 0) + (IF Expired THEN 1 ELSE 0)
    + (IF TimedOut THEN 1 ELSE 0) + (IF Failed THEN 1 ELSE 0)

-----------------------------------------------------------------------------
\* C1: when the Nth status response (1 <= N <= 10) reports payment_status =
\* 'paid' and the N-1 responses before it were successful responses that are
\* neither paid nor expired, the poll has issued exactly N status queries,
\* scheduled exactly N-1 poll-interval waits ((N-1) * 2000 ms), shows Paid and
\* no other outcome, and has no query in flight and no timer pending, in this
\* and every later state (so query N+1 is never issued).
C1_PaidAtNthResponse ==
    ( /\ Started
      /\ Len(hist) \in 1..maxAttempts
      /\ PaidResult(Last(hist))
      /\ AllPending(SubSeq(hist, 1, Len(hist) - 1)) )
    => ( /\ Paid
         /\ OutcomeCount = 1
         /\ ~Polling
         /\ queries = Len(hist)
         /\ waits = Len(hist) - 1
         /\ Elapsed = (Len(hist) - 1) * pollInterval )

\* pending x 9 then paid, on the tenth and last query of the budget
C1_Witness ==
    /\ Len(hist) = maxAttempts
    /\ PaidResult(Last(hist))
    /\ AllPending(SubSeq(hist, 1, Len(hist) - 1))
    /\ Paid
    /\ queries = maxAttempts

\* C2: while every status response so far is pending (neither paid nor
\* expired) and no transport error occurred, the poll keeps polling until 10
\* responses have arrived, never issues more than 10 queries, and once it has
\* stopped it shows TimedOut (and nothing else) with exactly 10 queries issued.
C2_AllPendingTimesOut ==
    (Started /\ AllPending(hist))
    => ( /\ queries <= maxAttempts
         /\ (Len(hist) < maxAttempts => Polling /\ OutcomeCount = 0)
         /\ (~Polling => /\ TimedOut
                         /\ OutcomeCount = 1
                         /\ Len(hist) = maxAttempts
                         /\ queries = maxAttempts) )

C2_Witness ==
    /\ Started
    /\ AllPending(hist)
    /\ Len(hist) = maxAttempts
    /\ TimedOut
    /\ pc = "done"

\* C3: after three transport failures in a row from the start of the poll,
\* the poll shows Failed and has issued exactly 3 status queries.
C3_ThreeFailuresFail ==
    ( /\ Started
      /\ Len(hist) >= 3
      /\ \A i \in 1..3 : FailureResult(hist[i]) )
    => (Failed /\ queries = 3)

\* C4: along the response sequence [failure, failure, pending, failure,
\* failure] the poll never shows Failed, and after the fifth it is still
\* polling.
C4_Sequence ==
    <<TransportFailure, TransportFailure,
      [ok |-> TRUE, payment_status |-> "unpaid", status |-> "open"],
      TransportFailure, TransportFailure>>

C4_PendingResetsFailures ==
    ( /\ Started
      /\ Len(hist) <= Len(C4_Sequence)
      /\ hist = SubSeq(C4_Sequence, 1, Len(hist)) )
    => (~Failed /\ (Len(hist) = Len(C4_Sequence) => Polling))

\* C5: the poll shows Failed only if the three most recent status queries all
\* ended in transport failure.
C5_FailedOnlyAfterThreeInARow ==
    Failed => ( /\ Len(hist) >= 3
                /\ \A i \in (Len(hist) - 2)..Len(hist) : FailureResult(hist[i]) )

\* C6: at every moment after the poll has started exactly one of {polling,
\* terminal-success, terminal-expired, terminal-error} holds; and once an
\* outcome is shown, every later step keeps that outcome, issues no status
\* query and schedules no timer.
C6_StateCount ==
    (IF Polling THEN 1 ELSE 0) + (IF Paid THEN 1 ELSE 0)
    + (IF Expired THEN 1 ELSE 0) + (IF TimedOut \/ Failed THEN 1 ELSE 0)

C6_TerminalIsAbsorbing ==
    /\ [](Started => C6_StateCount = 1)
    /\ [][Terminal => /\ Paid' = Paid
                      /\ Expired' = Expired
                      /\ TimedOut' = TimedOut
                      /\ Failed' = Failed
                      /\ queries' = queries
                      /\ waits' = waits
                      /\ ~Polling']_vars

\* a step taken after the outcome: the user has dismissed the success alert
C6_Witness ==
    /\ Started
    /\ Paid
    /\ activeTab = "history"
    /\ ~okButton
    /\ Len(hist) > 1

\* C7: one poll delivers at most one terminal notification.
C7_AtMostOneNotification == notified <= 1 /\ OutcomeCount <= 1

C7_Witness ==
    /\ notified = 1
    /\ pc = "done"
    /\ Len(hist) = 5
    /\ FailureResult(hist[1])
    /\ Expired

\* C8: when every request completes and every timer fires, a started poll
\* eventually shows one of Paid, Expired, TimedOut, Failed; and a poll that is
\* no longer polling shows one of these four.
C8_EventuallyTerminal ==
    /\ [](Started /\ ~Polling => Terminal /\ OutcomeCount = 1)
    /\ (Started /\ Polling) ~> Terminal

C8_Witness ==
    /\ Started
    /\ Failed
    /\ Len(hist) = maxAttempts
    /\ ~Polling

\* C9: one poll issues at most 10 status queries, whatever the responses.
C9_AtMostTenQueries == queries <= maxAttempts /\ Len(hist) <= queries

\* ten queries used up by a mix of transport failures and pending responses
C9_Witness ==
    /\ queries = maxAttempts
    /\ Len(hist) = maxAttempts
    /\ \E i \in 1..Len(hist) : FailureResult(hist[i])
    /\ PendingResult(Last(hist))
    /\ TimedOut

\* C10: a response with status 'expired' and payment_status other than 'paid'
\* makes the poll show Expired and stop: no outcome but Expired, no query in
\* flight, no timer pending, as many queries issued as responses received.
C10_ExpiredStops ==
    ( /\ Started
      /\ Len(hist) >= 1
      /\ ExpiredResult(Last(hist)) )
    => ( /\ Expired
         /\ OutcomeCount = 1
         /\ pc = "done"
         /\ queries = Len(hist) )

C10_Witness ==
    /\ Started
    /\ Len(hist) = 4
    /\ ExpiredResult(Last(hist))
    /\ Expired
    /\ pc = "done"

-----------------------------------------------------------------------------
(* Cancellation.  The source has no cancel(): the only signal by which the  *)
(* caller withdraws its interest in a poll is the unmount of the screen.    *)

\* what the screen component holds: the arguments of its latest setter calls
screenState == <<showPaymentStatus, paymentSessionId, activeTab, loading,
                 paymentStatus, consultationDetails>>

\* C11: when the poll is cancelled between query 2 and query 3 (the screen
\* is left after the second status query was issued and before the third),
\* no later step issues a status query or delivers a terminal notification.
C11_CancelStopsPoll ==
    [][(~mounted /\ unmountedAt = 2 /\ pc = "timer" /\ Len(hist) = 2)
        => (queries' = queries /\ notified' = notified)]_vars

\* C12: once the screen is unmounted with its poll still polling, no later
\* step of the poll calls a state setter of the screen or shows an alert.
C12_NoUpdateAfterUnmount ==
    [][(~mounted /\ Polling) => (screenState' = screenState /\ alerts' = alerts)]_vars

-----------------------------------------------------------------------------
(* Sequencing *)

\* status queries issued and not yet resolved or rejected
InFlight == queries - Len(hist)

\* poll timers armed and not yet fired
TimersPending == waits - fired

\* C13: within one poll at most one status query is in flight, at most one
\* poll timer is pending, and never a query in flight together with a
\* pending timer.
C13_StrictlySequential ==
    /\ InFlight \in {0, 1}
    /\ TimersPending \in {0, 1}
    /\ InFlight + TimersPending <= 1
    /\ (Polling <=> InFlight + TimersPending = 1)

\* the third wait: two timers have fired, the third is pending, nothing in flight
C13_Witness ==
    /\ Started
    /\ fired = 2
    /\ TimersPending = 1
    /\ InFlight = 0
    /\ Len(hist) = 3

-----------------------------------------------------------------------------
(* What the user sees *)

\* The 'processing' indicator: the payment-status modal of Consultations,
\* the loading view of ConsultationSuccess.
Indicator ==
    IF screen = "Consultations" THEN showPaymentStatus ELSE loading

\* C14 as stated: after the poll has started, the processing indicator is
\* visible exactly while the poll is polling.
C14_IndicatorIffPolling == Started => (Indicator <=> Polling)

\* C14 as amended: the indicator is visible while the poll is polling and is
\* hidden as soon as Expired, TimedOut or Failed is reached and, in
\* ConsultationSuccess, as soon as Paid is reached; in Consultations it stays
\* visible after Paid until the user presses 'OK' on the success alert.
C14_IndicatorUntilOutcomeOrOK ==
    Started =>
        /\ (Polling => Indicator)
        /\ (~Polling => (Indicator <=> (screen = "Consultations" /\ Paid /\ okButton)))

\* Consultations has shown 'Payment Successful!' and the modal is still up
C14_Witness ==
    /\ Started
    /\ screen = "Consultations"
    /\ Paid
    /\ okButton
    /\ showPaymentStatus
    /\ ~Polling

\* What ConsultationSuccess renders:
\* loading ? renderLoading() : paymentStatus === 'success' ? renderSuccess() : renderError()
View ==
    IF loading THEN "loading"
    ELSE IF paymentStatus = "success" THEN "success" ELSE "error"

\* The subtitle under 'Payment Failed' in renderError().
ErrorSubtitle ==
    IF paymentStatus = "expired"
    THEN "Your payment session has expired"
    ELSE "There was an issue processing your payment"

\* The presentation the Failed outcome produces: in Consultations the
\* 'Unable to verify payment status' alert, in ConsultationSuccess the
\* 'Payment Failed' view with the 'issue processing your payment' subtitle.
HardFailureShown ==
    IF screen = "Consultations"
    THEN Shown(AlertUnable)
    ELSE View = "error" /\ ErrorSubtitle = "There was an issue processing your payment"

\* C15: on TimedOut the user is told to check the status later (the timeout
\* alert) and is not shown the hard payment-failure presentation that Failed
\* produces.
C15_TimedOutIsNotHardFailure ==
    (Started /\ TimedOut)
    => ( /\ (Shown(AlertTimedOut) \/ Shown(AlertVerifyTimeout))
         /\ ~HardFailureShown )

\* C16: when the redirect carries no session_id no status query is ever
\* issued and nothing of a poll is pending; ConsultationSuccess, once its
\* effect has run, has left the loading state and shown the error alert.
C16_NoSessionNoPoll ==
    (session_id = "")
    => ( /\ queries = 0
         /\ hist = <<>>
         /\ waits = 0
         /\ ~Polling
         /\ (screen = "ConsultationSuccess" /\ pc # "start"
               => ~loading /\ alerts = <<AlertNoSession>>) )

C16_Witness ==
    /\ session_id = ""
    /\ screen = "ConsultationSuccess"
    /\ pc = "done"
    /\ ~loading
    /\ Shown(AlertNoSession)
    /\ queries = 0

-----------------------------------------------------------------------------
(* Classification and counting *)

\* C17: a successful response is classified by two independent tests, paid
\* first: the step that receives it shows Paid iff payment_status = 'paid'
\* (whatever status is), shows Expired iff payment_status is not 'paid' and
\* status = 'expired', and for every other body (pending, unknown or missing
\* values) arms one poll timer without notifying or querying; the call made
\* when that timer fires carries attempts + 1.
C17_Classification ==
    /\ [][(Len(hist') = Len(hist) + 1 /\ Last(hist').ok)
           => LET r == Last(hist') IN
              /\ (Paid' <=> r.payment_status = "paid")
              /\ (Expired' <=> (r.payment_status # "paid" /\ r.status = "expired"))
              /\ ((r.payment_status # "paid" /\ r.status # "expired")
                    => /\ pc' = "timer"
                       /\ waits' = waits + 1
                       /\ queries' = queries
                       /\ notified' = notified
                       /\ attempts' = attempts
                       /\ ~Terminal')]_vars
    /\ [][(pc = "timer" /\ pc' # "timer")
           => (attempts' = attempts + 1 /\ fired' = fired + 1)]_vars

\* a body with values the client does not know was treated as pending, and a
\* later body that is both paid and expired resolved Paid
C17_Witness ==
    /\ Started
    /\ Len(hist) = 3
    /\ hist[1].ok
    /\ hist[1].payment_status = "no_payment_required"
    /\ hist[1].status = "complete"
    /\ Last(hist).payment_status = "paid"
    /\ Last(hist).status = "expired"
    /\ Paid
    /\ ~Expired

\* C18 as stated: the attempt counter always equals the number of status
\* queries completed so far and never exceeds 10.
C18_AttemptsEqualsCompleted ==
    Started => (attempts = Len(hist) /\ attempts <= maxAttempts)

\* C18 as amended: attempts starts at 0, grows by exactly 1 at each
\* timer-driven call and never exceeds 10; while a status query is in flight
\* it equals the number of queries completed so far; after the result of a
\* query (during the wait, and after Paid, Expired or Failed) it is one less
\* than that number; on TimedOut it is 10, the number of queries completed.
C18_AttemptsCountsCalls ==
    /\ [](pc = "start" => attempts = 0)
    /\ [](Started => /\ attempts <= maxAttempts
                     /\ attempts = fired
                     /\ (pc = "query" => attempts = Len(hist) /\ queries = attempts + 1)
                     /\ (pc # "query" /\ ~TimedOut => attempts = Len(hist) - 1)
                     /\ (TimedOut => attempts = Len(hist) /\ attempts = maxAttempts))
    /\ [][attempts' = attempts \/ attempts' = attempts + 1]_vars

\* the wait after the fifth query, the first of which failed
C18_Witness ==
    /\ Started
    /\ pc = "timer"
    /\ attempts = 4
    /\ Len(hist) = 5
    /\ FailureResult(hist[1])

\* C19: TimedOut is shown only when exactly 10 status queries were issued
\* and none of them returned paid or expired; every status query is issued
\* by a call whose attempts is below 10, so none is issued at attempts = 10.
C19_TimedOutOnlyAfterTen ==
    /\ [](TimedOut => /\ queries = maxAttempts
                      /\ Len(hist) = maxAttempts
                      /\ \A i \in 1..Len(hist) :
                            ~PaidResult(hist[i]) /\ ~ExpiredResult(hist[i]))
    /\ [](attempts >= maxAttempts => pc # "query")
    /\ [][queries' # queries => (queries' = queries + 1 /\ attempts' < maxAttempts)]_vars

C19_Witness ==
    /\ Started
    /\ screen = "ConsultationSuccess"
    /\ TimedOut
    /\ attempts = maxAttempts
    /\ queries = maxAttempts
    /\ FailureResult(hist[3])
    /\ ~loading

-----------------------------------------------------------------------------
(* The two pollers on the same responses.  EquivSpec runs the poll of       *)
(* Consultations to its end, records what it did, then mounts               *)
(* ConsultationSuccess with the same session and answers its status queries *)
(* with the same results in the same order.                                 *)

OutcomeName ==
    IF Paid THEN "Paid"
    ELSE IF Expired THEN "Expired"
    ELSE IF TimedOut THEN "TimedOut"
    ELSE IF Failed THEN "Failed"
    ELSE "none"

\* what a poll has done: the results it consumed, its queries, its waits, its outcome
Summary ==
    [hist |-> hist, queries |-> queries, waits |-> waits, outcome |-> OutcomeName]

EquivInit ==
    /\ Init
    /\ screen = "Consultations"
    /\ session_id # ""

\* The Consultations poll is over: record it and start ConsultationSuccess
\* from its initial state.
Switch ==
    /\ screen = "Consultations"
    /\ pc = "done"
    /\ ref = NoRef
    /\ ref' = Summary
    /\ screen' = "ConsultationSuccess"
    /\ pc' = "start"
    /\ attempts' = 0
    /\ alerts' = <<>>
    /\ okButton' = FALSE
    /\ showPaymentStatus' = FALSE
    /\ paymentSessionId' = ""
    /\ activeTab' = "browse"
    /\ historyLoads' = 0
    /\ loading' = TRUE
    /\ paymentStatus' = ""
    /\ consultationDetails' = "null"
    /\ hist' = <<>>
    /\ queries' = 0
    /\ waits' = 0
    /\ notified' = 0
    /\ detailsRequests' = 0
    /\ fired' = 0
    /\ UNCHANGED <<session_id, mounted, unmountedAt, pendingBody, appVars>>

\* The second poll is answered as the first was.
Replay ==
    (ref # NoRef) =>
        /\ Len(hist') <= Len(ref.hist)
        /\ hist' = SubSeq(ref.hist, 1, Len(hist'))

EquivNext ==
    \/ checkPaymentReturn
    \/ \E data \in StatusResponses : pollResponse(data)
    \/ pollError
    \/ pollTimer
    \/ pressOK
    \/ Switch
    \/ verifyEffect
    \/ \E data \in StatusResponses : verifyResponse(data) /\ Replay
    \/ verifyError /\ Replay
    \/ verifyTimer
    \/ detailsResponse
    \/ detailsError

EquivSpec == EquivInit /\ [][EquivNext]_vars

\* C20: answered with the same results in the same order, the poll of
\* ConsultationSuccess never asks for a result the poll of Consultations did
\* not ask for, and once it has stopped it has consumed the same results,
\* issued the same number of status queries, scheduled the same number of
\* waits and reached the same outcome.
C20_PollersEquivalent ==
    (ref # NoRef) =>
        /\ (pc = "query" => Len(hist) < Len(ref.hist))
        /\ (pc = "timer" /\ hist = ref.hist => ref.outcome = "TimedOut")
        /\ (pc \in {"details", "done"} => Summary = ref)
        /\ ref.outcome \in {"Paid", "Expired", "TimedOut", "Failed"}

\* both polls gave up on a transport failure after pending responses
C20_Witness ==
    /\ ref # NoRef
    /\ screen = "ConsultationSuccess"
    /\ pc = "done"
    /\ Summary = ref
    /\ ref.outcome = "Failed"
    /\ Len(hist) = 6
    /\ PendingResult(hist[5])

-----------------------------------------------------------------------------
(* The consultation-details request of ConsultationSuccess *)

\* C21: in ConsultationSuccess, once a status response reports paid the
\* outcome stays 'success' whatever becomes of the consultation-details
\* request: every step taken while that request is pending, and the step
\* that ends it, keeps paymentStatus = 'success' and loading = false and
\* issues no status query, no timer and no second details request; after a
\* failed request (one was issued, the poll is over, no details are set) the
\* screen still shows success.
C21_DetailsFailureKeepsSuccess ==
    /\ [][(screen = "ConsultationSuccess" /\ pc = "details")
           => /\ paymentStatus' = "success"
              /\ loading' = FALSE
              /\ queries' = queries
              /\ waits' = waits
              /\ notified' = notified
              /\ detailsRequests' = detailsRequests
              /\ pc' \in {"details", "done"}]_vars
    /\ []((screen = "ConsultationSuccess" /\ detailsRequests > 0)
           => /\ detailsRequests = 1
              /\ paymentStatus = "success"
              /\ ~loading
              /\ View = "success"
              /\ ~Polling
              /\ queries = Len(hist))
    /\ [](consultationDetails # "null" => paymentStatus = "success")

\* the details request was issued and failed
C21_Witness ==
    /\ screen = "ConsultationSuccess"
    /\ pc = "done"
    /\ detailsRequests = 1
    /\ consultationDetails = "null"
    /\ paymentStatus = "success"
    /\ ~loading
    /\ Len(hist) = 2

-----------------------------------------------------------------------------
(* The chat screen (PharmaAIAssistant) and the session id it shares with    *)
(* the Profile screen through AsyncStorage.  setState calls take effect at  *)
(* once; AsyncStorage calls do not fail.                                    *)

\* everything a step of the chat screen leaves alone
notChat == <<pollVars, pharma_user_id, uidVars, listVars, toggleVars, bookVars>>

\* String.prototype.trim on the texts explored
trim(t) == IF t = " " THEN "" ELSE t

\* initializeSession: AsyncStorage.getItem('pharma_session_id') resolves.
\* A stored id goes into the state; otherwise an id is generated and
\* setItem is called.
initializeSession_get ==
    /\ initPc = "get"
    /\ IF pharma_session_id # ""
       THEN /\ storedSessionId' = pharma_session_id
            /\ sessionId' = pharma_session_id
            /\ initPc' = "done"
            /\ UNCHANGED generated
       ELSE /\ storedSessionId' = FreshId("session", generated + 1)
            /\ generated' = generated + 1
            /\ initPc' = "set"
            /\ UNCHANGED sessionId
    /\ UNCHANGED <<pharma_session_id, messages, inputText, chatLoading, suggestions,
                   chatAlerts, chatRequests, historyPc, clock, appended>>
    /\ UNCHANGED notChat

\* initializeSession: setItem resolves, then setSessionId(storedSessionId).
initializeSession_set ==
    /\ initPc = "set"
    /\ pharma_session_id' = storedSessionId
    /\ sessionId' = storedSessionId
    /\ initPc' = "done"
    /\ UNCHANGED <<generated, storedSessionId, messages, inputText, chatLoading,
                   suggestions, chatAlerts, chatRequests, historyPc,
                   clock, appended>>
    /\ UNCHANGED notChat

\* loadChatHistory: getItem resolves; the history is requested only for a
\* stored id.
loadChatHistory_get ==
    /\ historyPc = "get"
    /\ historyPc' = IF pharma_session_id # "" THEN "request" ELSE "done"
    /\ UNCHANGED <<storageVars, messages, inputText, chatLoading, sessionId, suggestions,
                   chatAlerts, chatRequests, initPc, storedSessionId,
                   clock, appended>>
    /\ UNCHANGED <<uidVars, pollVars, listVars, toggleVars, bookVars>>

\* loadChatHistory: the request resolves, setMessages(response.data).
loadChatHistory_response(data) ==
    /\ historyPc = "request"
    /\ messages' = data
    /\ historyPc' = "done"
    /\ UNCHANGED <<storageVars, inputText, chatLoading, sessionId, suggestions,
                   chatAlerts, chatRequests, initPc, storedSessionId,
                   clock, appended>>
    /\ UNCHANGED <<uidVars, pollVars, listVars, toggleVars, bookVars>>

\* loadChatHistory: the request rejects, the error is logged.
loadChatHistory_error ==
    /\ historyPc = "request"
    /\ historyPc' = "failed"
    /\ UNCHANGED <<storageVars, messages, inputText, chatLoading, sessionId, suggestions,
                   chatAlerts, chatRequests, initPc, storedSessionId,
                   clock, appended>>
    /\ UNCHANGED <<uidVars, pollVars, listVars, toggleVars, bookVars>>

\* onChangeText of the input field
setInputText(text) ==
    /\ inputText' = text
    /\ UNCHANGED <<storageVars, messages, chatLoading, sessionId, suggestions,
                   chatAlerts, chatRequests, initPc, storedSessionId,
                   historyPc, clock, appended>>
    /\ UNCHANGED <<uidVars, pollVars, listVars, toggleVars, bookVars>>

\* Variant: a sendMessage that does not test `loading`.
sendMessage_noLoadingGuard(messageText) ==
    LET textToSend == IF messageText # "" THEN messageText ELSE trim(inputText) IN
    /\ clock < MaxClock
    /\ IF textToSend = ""
       THEN UNCHANGED <<messages, inputText, chatLoading, chatRequests, clock, appended>>
       ELSE /\ messages' = Append(messages,
                                  [id |-> clock, sender |-> "user", message |-> textToSend])
            /\ inputText' = ""
            /\ chatLoading' = TRUE
            /\ chatRequests' = Append(chatRequests,
                                      [message |-> textToSend, session_id |-> sessionId])
            /\ clock' = clock + 1
            /\ appended' = appended \cup {clock}
    /\ UNCHANGED <<storageVars, sessionId, suggestions, chatAlerts, initPc,
                   storedSessionId, historyPc>>
    /\ UNCHANGED <<uidVars, pollVars, listVars, toggleVars, bookVars>>

\* sendMessage up to the await of axios.post: returns at once without text
\* or while loading; otherwise appends the user message, clears the input,
\* sets loading and posts {message, session_id: sessionId}.
sendMessage(messageText) ==
    LET textToSend == IF messageText # "" THEN messageText ELSE trim(inputText) IN
    /\ clock < MaxClock
    /\ IF textToSend = "" \/ chatLoading
       THEN UNCHANGED <<messages, inputText, chatLoading, chatRequests, clock, appended>>
       ELSE /\ messages' = Append(messages,
                                  [id |-> clock, sender |-> "user", message |-> textToSend])
            /\ inputText' = ""
            /\ chatLoading' = TRUE
            /\ chatRequests' = Append(chatRequests,
                                      [message |-> textToSend, session_id |-> sessionId])
            /\ clock' = clock + 1
            /\ appended' = appended \cup {clock}
    /\ UNCHANGED <<storageVars, sessionId, suggestions, chatAlerts, initPc,
                   storedSessionId, historyPc>>
    /\ UNCHANGED <<uidVars, pollVars, listVars, toggleVars, bookVars>>

\* sendMessage after the await: the request resolves; the assistant message
\* is appended, the suggestions are replaced, loading is reset (finally).
chatResponse(data) ==
    /\ chatRequests # <<>>
    /\ messages' = Append(messages,
                          [id |-> clock + 1, sender |-> "assistant", message |-> data.response])
    /\ suggestions' = data.suggestions
    /\ chatLoading' = FALSE
    /\ chatRequests' = Tail(chatRequests)
    /\ clock' = clock + 2
    /\ appended' = appended \cup {clock + 1}
    /\ UNCHANGED <<storageVars, inputText, sessionId, chatAlerts, initPc,
                   storedSessionId, historyPc>>
    /\ UNCHANGED <<uidVars, pollVars, listVars, toggleVars, bookVars>>

\* Variant: a catch block that reports the failure as an assistant message
\* and drops the suggestions.
chatError_appendsReply ==
    /\ chatRequests # <<>>
    /\ chatAlerts' = chatAlerts + 1
    /\ messages' = Append(messages,
                          [id |-> clock + 1, sender |-> "assistant", message |-> "error"])
    /\ suggestions' = <<>>
    /\ chatLoading' = FALSE
    /\ chatRequests' = Tail(chatRequests)
    /\ clock' = clock + 2
    /\ UNCHANGED <<storageVars, inputText, sessionId, initPc,
                   storedSessionId, historyPc, appended>>
    /\ UNCHANGED <<uidVars, pollVars, listVars, toggleVars, bookVars>>

\* sendMessage after the await: the request rejects; an alert is shown and
\* loading is reset (finally).
chatError ==
    /\ chatRequests # <<>>
    /\ chatAlerts' = chatAlerts + 1
    /\ chatLoading' = FALSE
    /\ chatRequests' = Tail(chatRequests)
    /\ UNCHANGED <<storageVars, messages, inputText, sessionId, suggestions, initPc, storedSessionId, historyPc, clock, appended>>
    /\ UNCHANGED <<uidVars, pollVars, listVars, toggleVars, bookVars>>

handleSuggestionPress ==
    /\ suggestions # <<>>
    /\ inputText' = suggestions[1]
    /\ suggestions' = <<>>
    /\ UNCHANGED <<storageVars, messages, chatLoading, sessionId, chatAlerts,
                   chatRequests, initPc, storedSessionId, historyPc, clock, appended>>
    /\ UNCHANGED <<uidVars, pollVars, listVars, toggleVars, bookVars>>

\* clearChat: the 'Clear Chat' alert is shown and 'Clear' is pressed:
\* setMessages([]), setSuggestions([]).  ('Cancel' has no handler.)
clearChat ==
    /\ messages' = <<>>
    /\ suggestions' = <<>>
    /\ appended' = {}
    /\ UNCHANGED <<storageVars, inputText, chatLoading, sessionId, chatAlerts,
                   chatRequests, initPc, storedSessionId, historyPc, clock>>
    /\ UNCHANGED <<uidVars, pollVars, listVars, toggleVars, bookVars>>

\* Profile.clearChatHistory, 'Clear' pressed: a new session id is generated
\* and stored; the chat screen is not told.
clearChatHistory ==
    /\ generated < MaxIds
    /\ pharma_session_id' = FreshId("session", generated + 1)
    /\ generated' = generated + 1
    /\ UNCHANGED chatVars
    /\ UNCHANGED notChat

ChatInit ==
    /\ PollInit
    /\ screen = "Consultations"
    /\ session_id = ""
    /\ pendingBody = [payment_status |-> "unpaid", status |-> "open"]
    /\ generated = 0
    /\ \E stored \in {"", FreshId("session", 0)} : ChatStart(stored)
    /\ UidIdle
    /\ ListIdle
    /\ ToggleIdle
    /\ BookIdle

ChatNext ==
    \/ initializeSession_get
    \/ initializeSession_set
    \/ loadChatHistory_get
    \/ \E data \in HistoryResponses : loadChatHistory_response(data)
    \/ loadChatHistory_error
    \/ \E text \in Texts : setInputText(text)
    \/ \E messageText \in MessageTexts : sendMessage(messageText)
    \/ \E data \in ChatResponses : chatResponse(data)
    \/ chatError
    \/ handleSuggestionPress
    \/ clearChat
    \/ clearChatHistory

ChatSpec == ChatInit /\ [][ChatNext]_vars

\* ids of the messages on screen
MessageIds == {messages[i].id : i \in 1..Len(messages)}
\* a chat request has just been sent
RequestSent == Len(chatRequests') > Len(chatRequests)
NewRequest == chatRequests'[Len(chatRequests')]

\* C22: every message that sendMessage appended since the last confirmed
\* clearChat is still in the message list.
C22_AppendedMessagesStay == appended \subseteq MessageIds

\* C23: every chat request is sent with a session_id that is non-empty and
\* equal to the value stored under 'pharma_session_id' at that moment.
C23_RequestCarriesStoredSession ==
    [][RequestSent => /\ NewRequest.session_id # ""
                      /\ NewRequest.session_id = pharma_session_id]_vars

\* C24: at most one chat request is in flight; loading is true exactly
\* while one is; a request is only sent when loading was false and the text
\* is not empty, and while loading is true no step appends a user message
\* or clears the input; the step that ends a request resets loading.
C24_OneRequestInFlight ==
    /\ [](Len(chatRequests) <= 1)
    /\ [](chatLoading <=> chatRequests # <<>>)
    /\ [][RequestSent => /\ ~chatLoading
                         /\ NewRequest.message # ""
                         /\ chatLoading']_vars
    /\ [][chatLoading =>
            /\ Len(chatRequests') <= Len(chatRequests)
            /\ \A i \in 1..Len(messages') :
                   messages'[i].id \in appended' \ appended
                       => messages'[i].sender = "assistant"]_vars
    /\ [][Len(chatRequests') < Len(chatRequests) => ~chatLoading']_vars

\* a request is in flight and sendMessage is called again with text
C24_Witness ==
    /\ chatLoading
    /\ Len(chatRequests) = 1
    /\ inputText = "q"
    /\ clock < MaxClock

\* C25: the step that ends a failed chat request (it shows the alert)
\* leaves the message list and the suggestions as they are; the step that
\* ends a successful one appends exactly one message, an assistant message
\* holding the response, and nothing else.
C25_FailureKeepsUserMessage ==
    [][Len(chatRequests') < Len(chatRequests) =>
        IF chatAlerts' # chatAlerts
        THEN /\ messages' = messages
             /\ suggestions' = suggestions
        ELSE /\ Len(messages') = Len(messages) + 1
             /\ SubSeq(messages', 1, Len(messages)) = messages
             /\ messages'[Len(messages')].sender = "assistant"
             /\ messages'[Len(messages')].message = "r"]_vars

\* a request has failed: the user message is on screen, no reply, the
\* suggestions of the earlier reply are still shown
C25_Witness ==
    /\ chatAlerts = 1
    /\ ~chatLoading
    /\ Len(messages) = 3
    /\ messages[3].sender = "user"
    /\ messages[2].sender = "assistant"
    /\ suggestions # <<>>

-----------------------------------------------------------------------------
(* Get-or-create of the user id: GreenChemistry.getUserId,                  *)
(* Investigation.getUserId and Profile.initializeProfile run the same       *)
(* getItem / generate / setItem sequence on 'pharma_user_id'.               *)

notUid == <<pollVars, pharma_session_id, chatVars, listVars, toggleVars, bookVars>>

\* the routine is called
getOrCreate_call(r) ==
    /\ userPc[r] \in {"idle", "done"}
    /\ userPc' = [userPc EXCEPT ![r] = "get"]
    /\ userId' = [userId EXCEPT ![r] = ""]
    /\ UNCHANGED <<pharma_user_id, generated, returned>>
    /\ UNCHANGED notUid

\* AsyncStorage.getItem('pharma_user_id') resolves: a stored id is returned;
\* otherwise an id is generated and setItem is called.
getOrCreate_get(r) ==
    /\ userPc[r] = "get"
    /\ IF pharma_user_id # ""
       THEN /\ userId' = [userId EXCEPT ![r] = pharma_user_id]
            /\ returned' = [returned EXCEPT ![r] = pharma_user_id]
            /\ userPc' = [userPc EXCEPT ![r] = "done"]
            /\ UNCHANGED generated
       ELSE /\ userId' = [userId EXCEPT ![r] = FreshId("user", generated + 1)]
            /\ generated' = generated + 1
            /\ userPc' = [userPc EXCEPT ![r] = "set"]
            /\ UNCHANGED returned
    /\ UNCHANGED pharma_user_id
    /\ UNCHANGED notUid

\* setItem resolves: the generated id is stored and returned.
getOrCreate_set(r) ==
    /\ userPc[r] = "set"
    /\ pharma_user_id' = userId[r]
    /\ returned' = [returned EXCEPT ![r] = userId[r]]
    /\ userPc' = [userPc EXCEPT ![r] = "done"]
    /\ UNCHANGED <<generated, userId>>
    /\ UNCHANGED notUid

GreenChemistry_getUserId ==
    \/ getOrCreate_call("GreenChemistry")
    \/ getOrCreate_get("GreenChemistry")
    \/ getOrCreate_set("GreenChemistry")

Investigation_getUserId ==
    \/ getOrCreate_call("Investigation")
    \/ getOrCreate_get("Investigation")
    \/ getOrCreate_set("Investigation")

initializeProfile ==
    \/ getOrCreate_call("Profile")
    \/ getOrCreate_get("Profile")
    \/ getOrCreate_set("Profile")

\* the payment screens at rest
PollIdle ==
    /\ PollInit
    /\ screen = "Consultations"
    /\ session_id = ""
    /\ pendingBody = [payment_status |-> "unpaid", status |-> "open"]

UidInit ==
    /\ PollIdle
    /\ generated = 0
    /\ ChatStart("")
    /\ UidIdle
    /\ ListIdle
    /\ ToggleIdle
    /\ BookIdle

UidNext == GreenChemistry_getUserId \/ Investigation_getUserId \/ initializeProfile

UidSpec == UidInit /\ [][UidNext]_vars

\* C26: once a user id is stored under 'pharma_user_id' no step overwrites
\* it, and a call whose getItem resolves after that returns the stored id.
C26_UserIdWrittenOnce ==
    [][pharma_user_id # "" =>
         /\ pharma_user_id' = pharma_user_id
         /\ \A r \in Routines :
              (userPc[r] = "get" /\ userPc'[r] = "done") => returned'[r] = pharma_user_id]_vars

-----------------------------------------------------------------------------
(* The solvent list of GreenChemistry and the root-cause list of            *)
(* Investigation.  Indexes are the 0-based row indexes of the rendered      *)
(* list.                                                                    *)

notList == <<pollVars, storageVars, chatVars, uidVars, toggleVars, bookVars>>

\* list.filter((_, i) => i !== index), from row i on
RECURSIVE filterNotIndex(_, _, _)
filterNotIndex(list, index, i) ==
    IF i >= Len(list)
    THEN <<>>
    ELSE (IF i # index THEN <<list[i + 1]>> ELSE <<>>) \o filterNotIndex(list, index, i + 1)

\* [...list]; updated[index] = value
updateAt(list, index, value) == [list EXCEPT ![index + 1] = value]

Rows(list) == 0..(Len(list) - 1)

addSolvent ==
    /\ Len(currentSolvents) < MaxLen
    /\ currentSolvents' = Append(currentSolvents, "")
    /\ listOp' = [list |-> "currentSolvents", op |-> "add", index |-> 0,
                  before |-> currentSolvents]
    /\ UNCHANGED rootCauses
    /\ UNCHANGED notList

updateSolvent(index, value) ==
    /\ index \in Rows(currentSolvents)
    /\ currentSolvents' = updateAt(currentSolvents, index, value)
    /\ listOp' = [list |-> "currentSolvents", op |-> "update", index |-> index,
                  before |-> currentSolvents]
    /\ UNCHANGED rootCauses
    /\ UNCHANGED notList

\* Variant: a removeSolvent without the length test.
removeSolvent_noGuard(index) ==
    /\ index \in Rows(currentSolvents)
    /\ currentSolvents' = filterNotIndex(currentSolvents, index, 0)
    /\ listOp' = [list |-> "currentSolvents", op |-> "remove", index |-> index,
                  before |-> currentSolvents]
    /\ UNCHANGED rootCauses
    /\ UNCHANGED notList

removeSolvent(index) ==
    /\ index \in Rows(currentSolvents)
    /\ currentSolvents' = IF Len(currentSolvents) > 1
                          THEN filterNotIndex(currentSolvents, index, 0)
                          ELSE currentSolvents
    /\ listOp' = [list |-> "currentSolvents", op |-> "remove", index |-> index,
                  before |-> currentSolvents]
    /\ UNCHANGED rootCauses
    /\ UNCHANGED notList

addRootCause ==
    /\ Len(rootCauses) < MaxLen
    /\ rootCauses' = Append(rootCauses, "")
    /\ listOp' = [list |-> "rootCauses", op |-> "add", index |-> 0, before |-> rootCauses]
    /\ UNCHANGED currentSolvents
    /\ UNCHANGED notList

updateRootCause(index, value) ==
    /\ index \in Rows(rootCauses)
    /\ rootCauses' = updateAt(rootCauses, index, value)
    /\ listOp' = [list |-> "rootCauses", op |-> "update", index |-> index,
                  before |-> rootCauses]
    /\ UNCHANGED currentSolvents
    /\ UNCHANGED notList

removeRootCause(index) ==
    /\ index \in Rows(rootCauses)
    /\ rootCauses' = IF Len(rootCauses) > 1
                     THEN filterNotIndex(rootCauses, index, 0)
                     ELSE rootCauses
    /\ listOp' = [list |-> "rootCauses", op |-> "remove", index |-> index,
                  before |-> rootCauses]
    /\ UNCHANGED currentSolvents
    /\ UNCHANGED notList

ListInit ==
    /\ PollIdle
    /\ generated = 0
    /\ ChatStart("")
    /\ UidIdle
    /\ ListIdle
    /\ ToggleIdle
    /\ BookIdle

ListNext ==
    \/ addSolvent
    \/ \E index \in 0..(MaxLen - 1), value \in Entries : updateSolvent(index, value)
    \/ \E index \in 0..(MaxLen - 1) : removeSolvent(index)
    \/ addRootCause
    \/ \E index \in 0..(MaxLen - 1), value \in Entries : updateRootCause(index, value)
    \/ \E index \in 0..(MaxLen - 1) : removeRootCause(index)

ListSpec == ListInit /\ [][ListNext]_vars

\* the list the last operation was applied to, as it is now
Operated == IF listOp.list = "currentSolvents" THEN currentSolvents ELSE rootCauses

\* C27: both lists always hold at least one entry; after a remove on a
\* one-element list the list is as before; after a remove on a longer list
\* the list is the old one without the entry at the index: one shorter, the
\* entries before the index in place, the entries after it moved up by one.
C27_ListsKeepOneEntry ==
    /\ Len(currentSolvents) >= 1
    /\ Len(rootCauses) >= 1
    /\ listOp.op = "remove" =>
         IF Len(listOp.before) = 1
         THEN Operated = listOp.before
         ELSE /\ Len(Operated) = Len(listOp.before) - 1
              /\ \A j \in 1..Len(Operated) :
                   Operated[j] = IF j <= listOp.index THEN listOp.before[j]
                                                      ELSE listOp.before[j + 1]

\* the middle entry of a three-element list was removed
C27_Witness ==
    /\ listOp.op = "remove"
    /\ listOp.list = "rootCauses"
    /\ listOp.before = <<"Methanol", "", "Methanol">>
    /\ listOp.index = 1
    /\ rootCauses = <<"Methanol", "Methanol">>

-----------------------------------------------------------------------------
(* Profile: the regulatory preferences *)

notToggle == <<pollVars, storageVars, chatVars, uidVars, listVars, bookVars>>

includes(list, value) == \E i \in 1..Len(list) : list[i] = value
filterNot(list, value) == SelectSeq(list, LAMBDA item : item # value)

\* Variant: the toggle without the length test.
toggle_noGuard(selected, value) ==
    IF includes(selected, value)
    THEN filterNot(selected, value)
    ELSE Append(selected, value)

\* the selection toggleRegulatoryPreference(value) sets, or leaves
toggle(selected, value) ==
    IF includes(selected, value)
    THEN (IF Len(selected) > 1 THEN filterNot(selected, value) ELSE selected)
    ELSE Append(selected, value)

toggleRegulatoryPreference(value) ==
    /\ selectedRegulatory' = toggle(selectedRegulatory, value)
    /\ toggled' = [value |-> value, before |-> selectedRegulatory]
    /\ UNCHANGED notToggle

ToggleInit ==
    /\ PollIdle
    /\ generated = 0
    /\ ChatStart("")
    /\ UidIdle
    /\ ListIdle
    /\ ToggleIdle
    /\ BookIdle

ToggleNext == \E value \in RegulatoryValues : toggleRegulatoryPreference(value)

ToggleSpec == ToggleInit /\ [][ToggleNext]_vars

Members(list) == {list[i] : i \in 1..Len(list)}

\* C28: the selection is never empty and holds no value twice; the last
\* toggle added its value if it was absent, removed it if it was present
\* with another, and changed nothing if it was the only one; and toggling
\* any value twice from the current selection gives back the same set when
\* the selection has a member other than that value.
C28_ToggleKeepsSelection ==
    /\ selectedRegulatory # <<>>
    /\ Cardinality(Members(selectedRegulatory)) = Len(selectedRegulatory)
    /\ toggled # NoToggle =>
         IF toggled.value \notin Members(toggled.before)
         THEN Members(selectedRegulatory) = Members(toggled.before) \cup {toggled.value}
         ELSE IF Len(toggled.before) > 1
              THEN Members(selectedRegulatory) = Members(toggled.before) \ {toggled.value}
              ELSE selectedRegulatory = toggled.before
    /\ \A value \in RegulatoryValues :
         (Members(selectedRegulatory) \ {value} # {}) =>
            Members(toggle(toggle(selectedRegulatory, value), value))
                = Members(selectedRegulatory)

\* the only selected value was toggled, after a longer selection had been
\* reduced to it
C28_Witness ==
    /\ toggled.before = <<"ICH">>
    /\ toggled.value = "ICH"
    /\ selectedRegulatory = <<"ICH">>

-----------------------------------------------------------------------------
(* Consultations: the booking form *)

notBook == <<pollVars, storageVars, chatVars, uidVars, listVars, toggleVars>>

\* 'Book Consultation' on a consultant card
openBookingModal(consultant) ==
    /\ selectedConsultant' = consultant
    /\ showBookingModal' = TRUE
    /\ UNCHANGED <<selectedPackage, bookingForm, bookingLoading, bookingRequest,
                   bookingAlert, bookingOutcome>>
    /\ UNCHANGED notBook

\* the close icon of the modal
closeBookingModal ==
    /\ showBookingModal
    /\ showBookingModal' = FALSE
    /\ UNCHANGED <<selectedConsultant, selectedPackage, bookingForm, bookingLoading,
                   bookingRequest, bookingAlert, bookingOutcome>>
    /\ UNCHANGED notBook

\* a package card is pressed
setSelectedPackage(packageId) ==
    /\ showBookingModal
    /\ selectedPackage' = packageId
    /\ UNCHANGED <<selectedConsultant, bookingForm, showBookingModal, bookingLoading,
                   bookingRequest, bookingAlert, bookingOutcome>>
    /\ UNCHANGED notBook

\* onChangeText of a required field
setBookingForm(fld, text) ==
    /\ showBookingModal
    /\ bookingForm' = [bookingForm EXCEPT ![fld] = text]
    /\ UNCHANGED <<selectedConsultant, selectedPackage, showBookingModal, bookingLoading,
                   bookingRequest, bookingAlert, bookingOutcome>>
    /\ UNCHANGED notBook

\* handleBookConsultation up to the await of axios.post ('Book Now' is in
\* the modal and disabled while loading): the two validations return after
\* an alert; otherwise loading is set and the booking is posted.
handleBookConsultation ==
    /\ showBookingModal
    /\ ~bookingLoading
    /\ IF selectedConsultant = "null" \/ selectedPackage = ""
       THEN /\ bookingAlert' = AlertSelect
            /\ bookingOutcome' = "invalid"
            /\ UNCHANGED <<bookingLoading, bookingRequest>>
       ELSE IF \E f \in RequiredFields : bookingForm[f] = ""
       THEN /\ bookingAlert' = AlertFields
            /\ bookingOutcome' = "invalid"
            /\ UNCHANGED <<bookingLoading, bookingRequest>>
       ELSE /\ bookingLoading' = TRUE
            /\ bookingRequest' = [consultant_id |-> selectedConsultant,
                                  package_id |-> selectedPackage,
                                  form |-> bookingForm]
            /\ bookingOutcome' = "sent"
            /\ UNCHANGED bookingAlert
    /\ UNCHANGED <<selectedConsultant, selectedPackage, bookingForm, showBookingModal>>
    /\ UNCHANGED notBook

\* Variant: the modal is closed whatever the response holds.
bookingResponse_alwaysCloses(data) ==
    /\ bookingRequest # NoBooking
    /\ showBookingModal' = FALSE
    /\ IF data.checkout_url # ""
       THEN /\ bookingOutcome' = "checkout"
            /\ UNCHANGED bookingAlert
       ELSE /\ bookingAlert' = AlertNoCheckout
            /\ bookingOutcome' = "no_url"
    /\ bookingLoading' = FALSE
    /\ bookingRequest' = NoBooking
    /\ UNCHANGED <<selectedConsultant, selectedPackage, bookingForm>>
    /\ UNCHANGED notBook

\* handleBookConsultation after the await: the request resolves.  With a
\* checkout_url the URL is opened and the modal closed; without one an
\* alert is shown; loading is reset (finally).
bookingResponse(data) ==
    /\ bookingRequest # NoBooking
    /\ IF data.checkout_url # ""
       THEN /\ showBookingModal' = FALSE
            /\ bookingOutcome' = "checkout"
            /\ UNCHANGED bookingAlert
       ELSE /\ bookingAlert' = AlertNoCheckout
            /\ bookingOutcome' = "no_url"
            /\ UNCHANGED showBookingModal
    /\ bookingLoading' = FALSE
    /\ bookingRequest' = NoBooking
    /\ UNCHANGED <<selectedConsultant, selectedPackage, bookingForm>>
    /\ UNCHANGED notBook

\* handleBookConsultation after the await: the request rejects.
bookingError ==
    /\ bookingRequest # NoBooking
    /\ bookingAlert' = AlertBookingFailed
    /\ bookingOutcome' = "failed"
    /\ bookingLoading' = FALSE
    /\ bookingRequest' = NoBooking
    /\ UNCHANGED <<selectedConsultant, selectedPackage, bookingForm, showBookingModal>>
    /\ UNCHANGED notBook

BookInit ==
    /\ PollIdle
    /\ generated = 0
    /\ ChatStart("")
    /\ UidIdle
    /\ ListIdle
    /\ ToggleIdle
    /\ BookIdle

BookNext ==
    \/ \E consultant \in Consultants \ {"null"} : openBookingModal(consultant)
    \/ closeBookingModal
    \/ \E packageId \in Packages \ {""} : setSelectedPackage(packageId)
    \/ \E fld \in RequiredFields, text \in FieldTexts : setBookingForm(fld, text)
    \/ handleBookConsultation
    \/ \E data \in BookingResponses : bookingResponse(data)
    \/ bookingError

BookSpec == BookInit /\ [][BookNext]_vars

\* the handler has just finished without sending / after its request
ValidationStep == bookingOutcome' = "invalid" /\ bookingRequest' = NoBooking
                  /\ bookingRequest = NoBooking /\ bookingAlert' \in {AlertSelect, AlertFields}
                  /\ <<bookingAlert, bookingOutcome>>' # <<bookingAlert, bookingOutcome>>
RequestEnds == bookingRequest # NoBooking /\ bookingRequest' = NoBooking

\* C29: a booking request is sent only from a state where a consultant and
\* a package are selected and the five required fields are non-empty, and
\* it carries them; the step that ends a request closes the modal only if
\* the response held a checkout_url, and a validation failure leaves the
\* modal open; loading is true exactly while a request is in flight, so it
\* is false after a validation failure, a failed request and a successful
\* one.
C29_BookingHandler ==
    /\ [][(bookingRequest = NoBooking /\ bookingRequest' # NoBooking) =>
            /\ selectedConsultant # "null"
            /\ selectedPackage # ""
            /\ \A f \in RequiredFields : bookingForm[f] # ""
            /\ bookingRequest' = [consultant_id |-> selectedConsultant,
                                  package_id |-> selectedPackage,
                                  form |-> bookingForm]]_vars
    /\ [][RequestEnds =>
            /\ ~bookingLoading'
            /\ (showBookingModal /\ ~showBookingModal') => bookingOutcome' = "checkout"
            /\ bookingOutcome' = "checkout" => ~showBookingModal']_vars
    /\ [][ValidationStep => (~bookingLoading' /\ showBookingModal' = showBookingModal)]_vars
    /\ [](bookingLoading <=> bookingRequest # NoBooking)

\* a complete form was sent and the response held no checkout_url: the
\* modal is still open and loading is false
C29_Witness ==
    /\ bookingOutcome = "no_url"
    /\ showBookingModal
    /\ ~bookingLoading
    /\ bookingAlert = AlertNoCheckout
    /\ \A f \in RequiredFields : bookingForm[f] # ""

====
